---------------------------- MODULE Spec2Model ----------------------------
(***************************************************************************)
(* A model of the arXiv scraper of src/index.ts: main() (search, result    *)
(* enumeration, per-paper detail extraction, run summary) and run()        *)
(* (session start, main, session close).                                   *)
(*                                                                         *)
(* JavaScript strings are sequences of one-character strings, so that      *)
(* length, substring, split, trim and prefix tests are computed, not       *)
(* assumed.  The pages the browser shows are inputs: the search-results    *)
(* page is drawn when the search is submitted, the detail page of a paper  *)
(* when it is navigated to.  A Playwright call that can reject (navigation, a read on a locator *)
(* that matches no element, an instruction-driven extraction) is a choice  *)
(* between its outcomes.                                                   *)
(***************************************************************************)
EXTENDS Integers, Sequences, FiniteSets, TLC

VARIABLES
    pc,              \* position of run()/main(): the next step to execute
    dom,             \* the search-results page the site served (input)
    current,         \* the page of the single browsing session
    detail,          \* content of the detail page last navigated to (input)
    paperElements,   \* index.ts:66  result elements found (indices into dom.items)
    papers,          \* index.ts:88  references {title, abstractLink}
    detailedPapers,  \* index.ts:116 output records
    i,               \* loop counter of the two for loops (0-based)
    result,          \* what main() returned
    log,             \* stagehand.log events, in order
    screenshot,      \* page.screenshot() was called (index.ts:79)
    queried,         \* history: every DOM lookup, with the page it ran on
    err,             \* the call whose rejection ended main(), or "none"
    deviations,      \* how many inputs so far depart from the default ones
    nz               \* harness of the abstract truncation rule (NormSpec)

vars == <<pc, dom, current, detail, paperElements, papers, detailedPapers, i,
          result, log, screenshot, queried, err, deviations, nz>>

-----------------------------------------------------------------------------
(* Bounds of the model *)

\* result elements on the search-results page
MaxElems == 5
\* inputs of one run that may depart from the default (a result element or
\* detail page of another shape, a call that rejects)
MaxDeviations == 2
\* NormSpec: longest input string, largest bound
MaxStrLen == 5
MaxBound == 3
\* length of the long abstract of the inputs
LongLen == 450
\* IdSpec: longest href of the result element
MaxUrlLen == 5

(* Constants of the program *)

MAX_ABSTRACT_LENGTH == 300
MAX_PAPERS == 4

-----------------------------------------------------------------------------
(* JavaScript string operations, on sequences of characters *)

Min(a, b) == IF a < b THEN a ELSE b

\* s.substring(0, n), n >= 0
Substring0(s, n) == SubSeq(s, 1, Min(n, Len(s)))

\* s.startsWith(p)
StartsWith(s, p) == Len(s) >= Len(p) /\ SubSeq(s, 1, Len(p)) = p

\* s.includes(p)
Includes(s, p) ==
    \E k \in 1..(Len(s) - Len(p) + 1) : SubSeq(s, k, k + Len(p) - 1) = p

IsSpace(c) == c \in {" ", "\t", "\n"}

RECURSIVE TrimStart(_)
TrimStart(s) ==
    IF s # <<>> /\ IsSpace(Head(s)) THEN TrimStart(Tail(s)) ELSE s

RECURSIVE TrimEnd(_)
TrimEnd(s) ==
    IF s # <<>> /\ IsSpace(s[Len(s)]) THEN TrimEnd(SubSeq(s, 1, Len(s) - 1)) ELSE s

\* s.trim()
Trim(s) == TrimEnd(TrimStart(s))

\* s.split(sep), sep one character: the pieces between the separators
RECURSIVE Split(_, _)
Split(s, sep) ==
    IF \E k \in 1..Len(s) : s[k] = sep
    THEN LET k == CHOOSE k \in 1..Len(s) : s[k] = sep /\ \A j \in 1..(k - 1) : s[j] # sep
         IN  <<SubSeq(s, 1, k - 1)>> \o Split(SubSeq(s, k + 1, Len(s)), sep)
    ELSE <<s>>

\* xs.filter(Boolean) on strings: the empty string is falsy
RECURSIVE FilterNonEmpty(_)
FilterNonEmpty(xs) ==
    IF xs = <<>> THEN <<>>
    ELSE IF Head(xs) = <<>> THEN FilterNonEmpty(Tail(xs))
    ELSE <<Head(xs)>> \o FilterNonEmpty(Tail(xs))

\* a || b on strings
OrElse(a, b) == IF a = <<>> THEN b ELSE a

(* String literals of index.ts *)

TITLE_NOT_FOUND == <<"T","i","t","l","e"," ","n","o","t"," ","f","o","u","n","d">>
DATE_NOT_FOUND == <<"D","a","t","e"," ","n","o","t"," ","f","o","u","n","d">>
NOT_AVAILABLE == <<"N","o","t"," ","a","v","a","i","l","a","b","l","e">>
EXTRACTION_FAILED == <<"E","x","t","r","a","c","t","i","o","n"," ","F","a","i","l","e","d">>
NA == <<"N","/","A">>
ELLIPSIS == <<".",".",".">>
ARXIV_ORIGIN == <<"h","t","t","p","s",":","/","/","a","r","x","i","v",".","o","r","g">>
ARXIV_PREFIX == <<"a","r","X","i","v",":">>
HTTP == <<"h","t","t","p">>
SEARCH_URL == <<"h","t","t","p","s",":","/","/","a","r","x","i","v",".","o","r","g","/","s","e","a","r","c","h","/","a","d","v","a","n","c","e","d">>
ABS_MARKER == <<"/","a","b","s","/">>
DOI_ORG == <<"d","o","i",".","o","r","g">>
BLANK == <<>>

-----------------------------------------------------------------------------
(* The abstract truncation rule, index.ts:171-173 *)

\* a slip that appends the marker without cutting
TruncateNoCut(abstract, n) ==
    IF Len(abstract) > n THEN abstract \o ELLIPSIS ELSE abstract

\* a slip that cuts without appending the marker
TruncateNoMarker(abstract, n) ==
    IF Len(abstract) > n THEN Substring0(abstract, n) ELSE abstract

TruncateAbstract(abstract, n) ==
    IF Len(abstract) > n THEN Substring0(abstract, n) \o ELLIPSIS ELSE abstract

-----------------------------------------------------------------------------
(* DOM nodes and CSS selectors *)

\* one node of a page: its tag, its class, its text content and its href
\* attribute (hasHref = FALSE: the attribute is absent, getAttribute gives null)
Node(tag, class, text, hasHref, href) ==
    [tag |-> tag, class |-> class, text |-> text, hasHref |-> hasHref, href |-> href]

\* a simple selector tag.class[href*="part"]; "" and <<>> leave a part open
Sel(tag, class, hrefHas) == [tag |-> tag, class |-> class, hrefHas |-> hrefHas]

Matches(node, sel) ==
    /\ sel.tag = "" \/ node.tag = sel.tag
    /\ sel.class = "" \/ node.class = sel.class
    /\ sel.hrefHas = <<>> \/ (node.hasHref /\ Includes(node.href, sel.hrefHas))

\* a selector list "a, b, c" matches what any of its selectors matches
MatchesAny(node, sels) == \E k \in 1..Len(sels) : Matches(node, sels[k])

\* scope.locator(sels): the positions of the matching nodes, in document order
Located(nodes, sels) == {k \in 1..Len(nodes) : MatchesAny(nodes[k], sels)}

\* locator.first(): the first matching node in document order
FirstOf(ks) == CHOOSE k \in ks : \A j \in ks : k <= j

\* the selector lists of index.ts
TITLE_SELECTOR ==
    <<Sel("p", "title", <<>>), Sel("", "list-title", <<>>), Sel("", "title", <<>>)>>
LINK_SELECTOR == <<Sel("a", "abstract-link", <<>>), Sel("a", "", ABS_MARKER)>>
AUTHORS_SELECTOR ==
    <<Sel("", "authors", <<>>), Sel("", "meta", <<>>), Sel("p", "authors", <<>>)>>
DATE_SELECTOR == <<Sel("div", "dateline", <<>>)>>
DOI_SELECTOR == <<Sel("a", "", DOI_ORG)>>

\* locator.first().textContent(): the text of the first match; with no match
\* the call waits for one and rejects with a timeout
TextContent(nodes, sels) ==
    LET ks == Located(nodes, sels)
    IN  IF ks = {} THEN [ok |-> FALSE, v |-> <<>>]
        ELSE [ok |-> TRUE, v |-> nodes[FirstOf(ks)].text]

\* locator.first().getAttribute('href') || dflt: null (no attribute) and ""
\* both give dflt; with no match the call rejects with a timeout
HrefOr(nodes, sels, dflt) ==
    LET ks == Located(nodes, sels)
    IN  IF ks = {} THEN [ok |-> FALSE, v |-> <<>>]
        ELSE LET n == nodes[FirstOf(ks)]
             IN  [ok |-> TRUE, v |-> IF n.hasHref THEN OrElse(n.href, dflt) ELSE dflt]

-----------------------------------------------------------------------------
(* The search-results page *)

UPPER == <<"A","B","C","D","E","F","G","H","I","J","K","L","M",
           "N","O","P","Q","R","S","T","U","V","W","X","Y","Z">>
LOWER == <<"a","b","c","d","e","f","g","h","i","j","k","l","m",
           "n","o","p","q","r","s","t","u","v","w","x","y","z">>

\* the lower-case letter of each upper-case letter
LOWER_OF == [c \in {UPPER[k] : k \in 1..26} |-> LOWER[CHOOSE k \in 1..26 : UPPER[k] = c]]

Lower(c) == IF c \in DOMAIN LOWER_OF THEN LOWER_OF[c] ELSE c

LowerCase(s) == [k \in 1..Len(s) |-> Lower(s[k])]

TITLE_LABEL == <<"t","i","t","l","e",":">>

\* title.replace(/^\s*Title:\s*/i, ''): index.ts:97
StripTitleLabel(title) ==
    LET t == TrimStart(title)
    IN  IF Len(t) >= Len(TITLE_LABEL)
           /\ LowerCase(SubSeq(t, 1, Len(TITLE_LABEL))) = TITLE_LABEL
        THEN TrimStart(SubSeq(t, Len(TITLE_LABEL) + 1, Len(t)))
        ELSE title

\* index.ts:102
AbsoluteLink(href) == IF StartsWith(href, HTTP) THEN href ELSE ARXIV_ORIGIN \o href

\* a slip that reads title and link at page scope instead of element scope
ScopeOfPage(items, e) ==
    LET RECURSIVE Flat(_)
        Flat(k) == IF k > Len(items) THEN <<>> ELSE items[k] \o Flat(k + 1)
    IN  Flat(1)

\* element.locator(...): the nodes a lookup scoped to result element e sees
ScopeOf(items, e) == items[e]

\* the body of the try block of the first loop, index.ts:93-107, on result
\* element e: ok = FALSE when a read rejected (the catch at 108 logs and the
\* element yields no reference)
ReadReference(items, e) ==
    LET nodes == ScopeOf(items, e)
        t == TextContent(nodes, TITLE_SELECTOR)
        title == OrElse(t.v, TITLE_NOT_FOUND)
        cleanTitle == Trim(StripTitleLabel(title))
        h == HrefOr(nodes, LINK_SELECTOR, <<>>)
    IN  IF ~t.ok \/ ~h.ok THEN [ok |-> FALSE, title |-> <<>>, abstractLink |-> <<>>]
        ELSE [ok |-> TRUE, title |-> cleanTitle, abstractLink |-> AbsoluteLink(h.v)]

\* which reads the try block of index.ts:93-107 performs on element e: the
\* link is not read once the title read rejected
ReadsOf(items, e) ==
    IF TextContent(ScopeOf(items, e), TITLE_SELECTOR).ok
    THEN <<"title", "link">> ELSE <<"title">>

-----------------------------------------------------------------------------
(* Inputs: the pages the site serves *)

\* the result element arXiv serves today: a title paragraph and a relative
\* abstract link
PLAIN_ELEMENT ==
    <<Node("p", "title", <<"T","i","t","l","e",":"," ","A">>, FALSE, <<>>),
      Node("a", "abstract-link", <<>>, TRUE, <<"/","a","b","s","/","1">>)>>

\* result elements of other shapes
\* a node of a later title candidate (label in upper case, blanks around)
\* before one of the first, and a link of the second link candidate
\* (absolute, versioned) before one of the first
MIXED_ELEMENT ==
    <<Node("span", "list-title", <<" ","T","I","T","L","E",":"," "," ","B"," ">>, FALSE, <<>>),
      Node("p", "title", <<"T","i","t","l","e",":"," ","C">>, FALSE, <<>>),
      Node("a", "", <<>>, TRUE, <<"h","t","t","p",":","/","/","a","/","a","b","s","/","2","v","1">>),
      Node("a", "abstract-link", <<>>, TRUE, <<"/","a","b","s","/","3">>)>>
\* no title node
NO_TITLE_ELEMENT == <<Node("a", "abstract-link", <<>>, TRUE, <<"/","a","b","s","/","3">>)>>
\* no anchor
NO_LINK_ELEMENT == <<Node("p", "title", <<"T","i","t","l","e",":"," ","D">>, FALSE, <<>>)>>
\* a title node without text and an anchor without href
EMPTY_ELEMENT ==
    <<Node("p", "title", <<>>, FALSE, <<>>),
      Node("a", "abstract-link", <<>>, FALSE, <<>>)>>

OtherElements == {MIXED_ELEMENT, NO_TITLE_ELEMENT, NO_LINK_ELEMENT, EMPTY_ELEMENT}

\* how many members of a sequence differ from the default one
RECURSIVE CountOther(_, _)
CountOther(xs, dflt) ==
    IF xs = <<>> THEN 0
    ELSE (IF Head(xs) = dflt THEN 0 ELSE 1) + CountOther(Tail(xs), dflt)

\* the lists of at most MaxElems result elements, at most MaxDeviations of
\* them of another shape than PLAIN_ELEMENT
RECURSIVE ItemLists(_, _)
ItemLists(n, d) ==
    IF n = 0 THEN {<<>>}
    ELSE LET shorter == ItemLists(n - 1, d)
         IN  shorter
             \cup {Append(xs, PLAIN_ELEMENT) : xs \in {ys \in shorter : Len(ys) = n - 1}}
             \cup {Append(xs, o) :
                     xs \in {ys \in shorter :
                               Len(ys) = n - 1 /\ CountOther(ys, PLAIN_ELEMENT) < d},
                     o \in OtherElements}

\* markup of the result list: "arxiv" (li.arxiv-result inside
\* ol.breathe-horizontal), "legacy" (plain li inside ol.breathe-horizontal),
\* "unknown" (neither selector of index.ts:66,71 matches)
Markups == {"arxiv", "legacy", "unknown"}

\* how far a search-results page departs from the default one (the markup
\* arXiv serves today, every result element a PLAIN_ELEMENT)
PageDeviations(page) ==
    CountOther(page.items, PLAIN_ELEMENT) + (IF page.markup = "arxiv" THEN 0 ELSE 1)

SearchPages ==
    {page \in [markup : Markups, items : ItemLists(MaxElems, MaxDeviations)] :
       PageDeviations(page) <= MaxDeviations}

NO_PAGE == [markup |-> "unknown", items |-> <<>>]

\* page.locator(selector).all() on the search-results page: index.ts:66, 71
AllResults(page, selector) ==
    IF \/ selector = "li.arxiv-result" /\ page.markup = "arxiv"
       \/ selector = "ol.breathe-horizontal > li" /\ page.markup \in {"arxiv", "legacy"}
    THEN [k \in 1..Len(page.items) |-> k]
    ELSE <<>>

\* the detail page arXiv serves today, and what page.extract answers on it
DetailPage(abstract, nodes) ==
    [abstract |-> abstract, authorsLLM |-> <<<<"Z">>>>, nodes |-> nodes]

AUTHORS_NODE == Node("div", "authors", <<" ","X"," ",",",","," ","Y"," ">>, FALSE, <<>>)
DATE_NODE == Node("div", "dateline", <<"d">>, FALSE, <<>>)
DOI_NODE == Node("a", "", <<>>, TRUE, <<"h","t","t","p","s",":","/","/","d","o","i",".","o","r","g","/","1">>)

Ok(v) == [ok |-> TRUE, v |-> v]
Rejected == [ok |-> FALSE, v |-> <<>>]

LONG_ABSTRACT == [k \in 1..LongLen |-> IF k % 7 = 0 THEN "." ELSE "a"]

PLAIN_DETAIL == DetailPage(Ok(<<"a","b","s">>), <<AUTHORS_NODE, DATE_NODE, DOI_NODE>>)

OtherDetails ==
    {DetailPage(Ok(<<"a","b","s">>), <<AUTHORS_NODE, DATE_NODE>>),
     DetailPage(Ok(<<"a","b","s">>), <<DATE_NODE, DOI_NODE>>),
     DetailPage(Ok(<<"a","b","s">>), <<AUTHORS_NODE, DOI_NODE>>),
     DetailPage(Ok(<<"a","b","s">>),
                <<AUTHORS_NODE, Node("div", "dateline", <<>>, FALSE, <<>>), DOI_NODE>>),
     DetailPage(Ok(LONG_ABSTRACT), <<AUTHORS_NODE, DATE_NODE, DOI_NODE>>),
     DetailPage(Ok(<<"A","b","s","t","r","a","c","t",":"," ","a","b","s">>), <<AUTHORS_NODE, DATE_NODE, DOI_NODE>>),
     DetailPage(Rejected, <<AUTHORS_NODE, DATE_NODE, DOI_NODE>>)}

NO_DETAIL == DetailPage(Rejected, <<>>)

-----------------------------------------------------------------------------
(* Detail extraction: the try block of the second loop, index.ts:127-213 *)

\* `if (authorsElement)`, `if (doiElement)`: index.ts:141, 166.  locator.first()
\* returns a Locator object whether or not an element matches, and an object
\* is truthy
LocatorIsTruthy == TRUE

Last(xs) == xs[Len(xs)]

MapTrim(xs) == [k \in 1..Len(xs) |-> Trim(xs[k])]

\* index.ts:143
SplitAuthors(authorsText) == FilterNonEmpty(MapTrim(Split(authorsText, ",")))

\* a slip that leaves out the test for the version marker
ArxivIdAlwaysPrefixed(abstractLink) ==
    ARXIV_PREFIX \o OrElse(Last(Split(abstractLink, "/")), <<>>)

\* index.ts:160-161
ArxivId(abstractLink) ==
    LET urlPath == OrElse(Last(Split(abstractLink, "/")), <<>>)
    IN  IF Includes(urlPath, <<"v">>) THEN urlPath ELSE ARXIV_PREFIX \o urlPath

\* a slip that keeps the identifier derived from the link in the fallback
FallbackRecordKeepsId(paper) ==
    [title |-> paper.title, authors |-> <<>>, abstract |-> EXTRACTION_FAILED,
     submissionDate |-> EXTRACTION_FAILED, doi |-> NOT_AVAILABLE,
     arxivId |-> ArxivId(paper.abstractLink), citationCount |-> NA,
     elem |-> paper.elem]

\* the record pushed by the catch block, index.ts:204-212
FallbackRecord(paper) ==
    [title |-> paper.title, authors |-> <<>>, abstract |-> EXTRACTION_FAILED,
     submissionDate |-> EXTRACTION_FAILED, doi |-> NOT_AVAILABLE,
     arxivId |-> EXTRACTION_FAILED, citationCount |-> NA, elem |-> paper.elem]

\* the reads of the try block in program order, each with its outcome
AbstractRead(page) == page.abstract
AuthorsRead(page) ==
    IF LocatorIsTruthy
    THEN LET t == TextContent(page.nodes, AUTHORS_SELECTOR)
         IN  IF t.ok THEN Ok(SplitAuthors(OrElse(t.v, <<>>))) ELSE Rejected
    ELSE Ok(page.authorsLLM)
DateRead(page) ==
    LET t == TextContent(page.nodes, DATE_SELECTOR)
    IN  IF t.ok THEN Ok(OrElse(t.v, DATE_NOT_FOUND)) ELSE Rejected
DoiRead(page) ==
    IF LocatorIsTruthy THEN HrefOr(page.nodes, DOI_SELECTOR, NOT_AVAILABLE)
    ELSE Ok(NOT_AVAILABLE)

\* the try block as a whole: ok = FALSE when one of its reads rejected, and
\* then the record is the one of the catch block
ExtractRecord(paper, page) ==
    LET a == AbstractRead(page)
        au == AuthorsRead(page)
        d == DateRead(page)
        doi == DoiRead(page)
    IN  IF a.ok /\ au.ok /\ d.ok /\ doi.ok
        THEN [ok |-> TRUE,
              record |-> [title |-> paper.title, authors |-> au.v,
                          abstract |-> TruncateAbstract(a.v, MAX_ABSTRACT_LENGTH),
                          submissionDate |-> d.v, doi |-> doi.v,
                          arxivId |-> ArxivId(paper.abstractLink),
                          citationCount |-> NA, elem |-> paper.elem]]
        ELSE [ok |-> FALSE, record |-> FallbackRecord(paper)]

\* the reads the try block performs before it ends or one of them rejects
DetailReads(page) ==
    IF ~AbstractRead(page).ok THEN <<"extract">>
    ELSE IF ~AuthorsRead(page).ok THEN <<"extract", "authors">>
    ELSE IF ~DateRead(page).ok THEN <<"extract", "authors", "dateline">>
    ELSE <<"extract", "authors", "dateline", "doi">>

-----------------------------------------------------------------------------
(* The state machine of run() and main() *)

Event(msg, n) == [msg |-> msg, n |-> n]

\* a lookup or read, as recorded in the history: the element it is scoped to
\* (0: the page), what was looked up, the page it ran on (its address, whether
\* its content was ready, the reference it was opened for; 0: none), and the
\* paper being processed (0: none)
Query(scope, sel, paper) ==
    [scope |-> scope, sel |-> sel, url |-> current.url, ready |-> current.ready,
     opened |-> current.paper, paper |-> paper]

Queries(scope, sels, paper) == [k \in 1..Len(sels) |-> Query(scope, sels[k], paper)]

NOT_RETURNED == [kind |-> "none", v |-> <<>>]
Returned(v) == [kind |-> "array", v |-> v]
\* a slip that returns an empty collection where index.ts:80 returns nothing
EMPTY_ARRAY == Returned(<<>>)
\* the value of a bare `return;`: index.ts:80
UNDEFINED == [kind |-> "undefined", v |-> <<>>]

NZ_IDLE == [stage |-> "idle", s |-> <<>>, n |-> 0, once |-> <<>>, twice |-> <<>>]

Init ==
    /\ pc = "search"
    /\ dom = NO_PAGE
    /\ current = [url |-> BLANK, ready |-> FALSE, paper |-> 0]
    /\ detail = NO_DETAIL
    /\ paperElements = <<>>
    /\ papers = <<>>
    /\ detailedPapers = <<>>
    /\ i = 0
    /\ result = NOT_RETURNED
    /\ log = <<>>
    /\ screenshot = "none"
    /\ queried = <<>>
    /\ err = "none"
    /\ deviations = 0
    /\ nz = NZ_IDLE

\* a slip that closes the session when main rejects (try/finally in run)
RejectThenClose(call) ==
    /\ deviations < MaxDeviations
    /\ deviations' = deviations + 1
    /\ err' = call
    /\ pc' = "closed"

\* an awaited call rejects: main() ends there, and with it run(), whose
\* `await main(...)` is followed by no handler (index.ts:269-274)
Reject(call) ==
    /\ deviations < MaxDeviations
    /\ deviations' = deviations + 1
    /\ err' = call
    /\ pc' = "rejected"

SEARCH_LOG ==
    <<Event("start", 0), Event("navigated", 0), Event("submitted", 0),
      Event("extracting", 0)>>

\* index.ts:39-63: open the advanced search, fill the form, submit, wait;
\* the site answers with a search-results page, or one of the calls rejects
Search ==
    /\ pc = "search"
    /\ \/ /\ pc' = "find"
          /\ \E page \in SearchPages :
               /\ dom' = page
               /\ deviations' = PageDeviations(page)
          /\ current' = [url |-> SEARCH_URL, ready |-> TRUE, paper |-> 0]
          /\ log' = SEARCH_LOG
          /\ UNCHANGED err
       \/ /\ \E call \in {"goto", "act", "click", "waitForLoadState"} :
               /\ Reject(call)
               /\ log' = SubSeq(SEARCH_LOG, 1,
                                CASE call = "goto" -> 1
                                  [] call \in {"act", "click"} -> 2
                                  [] OTHER -> 3)
               /\ current' = [url |-> IF call = "goto" THEN BLANK ELSE SEARCH_URL,
                              ready |-> FALSE, paper |-> 0]
          /\ UNCHANGED dom
    /\ UNCHANGED <<detail, paperElements, papers, detailedPapers, i, result,
                   screenshot, queried, nz>>

PRIMARY == "li.arxiv-result"
ALTERNATIVE == "ol.breathe-horizontal > li"

\* the selectors index.ts:66-75 evaluates on the page, in order: the
\* alternative only when the first found nothing
ResultSelectorsTried(page) ==
    IF Len(AllResults(page, PRIMARY)) = 0 THEN <<PRIMARY, ALTERNATIVE>> ELSE <<PRIMARY>>

\* index.ts:66-75: paperElements after both lookups
FoundElements(page) ==
    LET first == AllResults(page, PRIMARY)
    IN  IF Len(first) = 0 THEN AllResults(page, ALTERNATIVE) ELSE first

\* index.ts:66-86: the result elements are found
FindSome ==
    /\ pc = "find"
    /\ Len(FoundElements(dom)) > 0
    /\ paperElements' = FoundElements(dom)
    /\ queried' = queried \o Queries(0, ResultSelectorsTried(dom), 0)
    /\ log' = log
              \o (IF Len(AllResults(dom, PRIMARY)) = 0
                  THEN <<Event("no-primary", 0)>> ELSE <<>>)
              \o <<Event("found", Len(FoundElements(dom)))>>
    /\ pc' = "inspect"
    /\ i' = 0
    /\ UNCHANGED <<dom, current, detail, papers, detailedPapers, result, screenshot,
                   err, deviations, nz>>

\* index.ts:66-81: no result element is found: screenshot, and main returns
\* (a bare `return;`) unless the screenshot rejects
FindNone ==
    /\ pc = "find"
    /\ Len(FoundElements(dom)) = 0
    /\ paperElements' = <<>>
    /\ queried' = queried \o Queries(0, ResultSelectorsTried(dom), 0)
    /\ log' = log \o <<Event("no-primary", 0), Event("no-elements", 0)>>
    /\ \/ /\ screenshot' = "captured"
          /\ result' = UNDEFINED
          /\ pc' = "returned"
          /\ UNCHANGED <<err, deviations>>
       \/ /\ screenshot' = "rejected"
          /\ Reject("screenshot")
          /\ UNCHANGED result
    /\ UNCHANGED <<dom, current, detail, papers, detailedPapers, i, nz>>

\* index.ts:66, 71: a lookup of the result elements rejects
FindRejected ==
    /\ pc = "find"
    /\ \E n \in 1..Len(ResultSelectorsTried(dom)) :
          /\ queried' = queried \o Queries(0, SubSeq(ResultSelectorsTried(dom), 1, n), 0)
          /\ log' = log \o (IF n = 2 THEN <<Event("no-primary", 0)>> ELSE <<>>)
    /\ Reject("all")
    /\ UNCHANGED <<dom, current, detail, paperElements, papers, detailedPapers, i,
                   result, screenshot, nz>>

\* a slip that leaves out the cap
InspectBoundNoCap == Len(paperElements)

\* a slip that inspects one element past the cap (<= for <)
InspectBoundOffByOne == Min(Len(paperElements), MAX_PAPERS + 1)

\* index.ts:90
InspectBound == Min(Len(paperElements), MAX_PAPERS)

\* a slip that opens the detail page of a reference as soon as it is read
InspectStepThenOpen ==
    /\ pc = "inspect"
    /\ i < InspectBound
    /\ LET e == paperElements[i + 1]
           r == ReadReference(dom.items, e)
       IN  /\ papers' = IF r.ok
                        THEN Append(papers, [title |-> r.title,
                                             abstractLink |-> r.abstractLink,
                                             elem |-> e])
                        ELSE papers
           /\ log' = IF r.ok THEN log ELSE Append(log, Event("inspect-error", i + 1))
           /\ queried' = queried \o Queries(e, ReadsOf(dom.items, e), 0)
           /\ current' = IF r.ok
                         THEN [url |-> r.abstractLink, ready |-> TRUE,
                               paper |-> Len(papers) + 1]
                         ELSE current
    /\ i' = i + 1
    /\ UNCHANGED <<pc, dom, detail, paperElements, detailedPapers, result,
                   screenshot, err, deviations, nz>>

\* index.ts:90-114: one iteration of the first loop
InspectStep ==
    /\ pc = "inspect"
    /\ i < InspectBound
    /\ LET e == paperElements[i + 1]
           r == ReadReference(dom.items, e)
       IN  /\ papers' = IF r.ok
                        THEN Append(papers, [title |-> r.title,
                                             abstractLink |-> r.abstractLink,
                                             elem |-> e])
                        ELSE papers
           /\ log' = IF r.ok THEN log ELSE Append(log, Event("inspect-error", i + 1))
           /\ queried' = queried \o Queries(e, ReadsOf(dom.items, e), 0)
    /\ i' = i + 1
    /\ UNCHANGED <<pc, dom, current, detail, paperElements, detailedPapers, result,
                   screenshot, err, deviations, nz>>

\* index.ts:90, 116-119: the first loop ends, the second starts
EnumerationDone ==
    /\ pc = "inspect"
    /\ ~(i < InspectBound)
    /\ pc' = "papers"
    /\ i' = 0
    /\ UNCHANGED <<dom, current, detail, paperElements, papers, detailedPapers,
                   result, log, screenshot, queried, err, deviations, nz>>

\* index.ts:119-124: page.goto(paper.abstractLink); the site answers with a
\* detail page, or the navigation rejects
Goto ==
    /\ pc = "papers"
    /\ i < Len(papers)
    /\ log' = Append(log, Event("processing", i + 1))
    /\ \/ /\ \E d \in {PLAIN_DETAIL}
                      \cup (IF deviations < MaxDeviations THEN OtherDetails ELSE {}) :
               /\ detail' = d
               /\ deviations' = deviations + (IF d = PLAIN_DETAIL THEN 0 ELSE 1)
          /\ current' = [url |-> papers[i + 1].abstractLink, ready |-> FALSE,
                         paper |-> i + 1]
          /\ pc' = "wait"
          /\ UNCHANGED err
       \/ /\ Reject("goto-paper")
          /\ UNCHANGED <<current, detail>>
    /\ UNCHANGED <<dom, paperElements, papers, detailedPapers, i, result, screenshot,
                   queried, nz>>

\* a slip that goes on to the reads without the content-ready wait
WaitForLoadNoWait ==
    /\ pc = "wait"
    /\ pc' = "extract"
    /\ UNCHANGED <<dom, current, detail, paperElements, papers, detailedPapers, i,
                   result, log, screenshot, queried, err, deviations, nz>>

\* index.ts:125: page.waitForLoadState("domcontentloaded")
WaitForLoad ==
    /\ pc = "wait"
    /\ \/ /\ current' = [current EXCEPT !.ready = TRUE]
          /\ pc' = "extract"
          /\ UNCHANGED <<err, deviations>>
       \/ /\ Reject("waitForLoadState-paper")
          /\ UNCHANGED current
    /\ UNCHANGED <<dom, detail, paperElements, papers, detailedPapers, i, result, log,
                   screenshot, queried, nz>>

\* a slip that adds the record in front (unshift)
Unshift(records, record) == <<record>> \o records

\* a slip that pushes the record in the try block and again in the catch
PushTwice(records, record) == Append(Append(records, record), record)

\* detailedPapers.push(record): index.ts:175, 204
Push(records, record) == Append(records, record)

\* index.ts:127-214: the try block and its catch, then the next iteration
ExtractDetails ==
    /\ pc = "extract"
    /\ LET r == ExtractRecord(papers[i + 1], detail)
       IN  /\ detailedPapers' = Push(detailedPapers, r.record)
           /\ log' = Append(log, Event(IF r.ok THEN "success" ELSE "failed", i + 1))
    /\ queried' = queried \o Queries(0, DetailReads(detail), i + 1)
    /\ i' = i + 1
    /\ pc' = "papers"
    /\ UNCHANGED <<dom, current, detail, paperElements, papers, result, screenshot,
                   err, deviations, nz>>

\* index.ts:216-237: the run summary is logged and main returns the records
Finish ==
    /\ pc = "papers"
    /\ ~(i < Len(papers))
    /\ log' = Append(log, Event("finished", Len(detailedPapers)))
    /\ result' = Returned(detailedPapers)
    /\ pc' = "returned"
    /\ UNCHANGED <<dom, current, detail, paperElements, papers, detailedPapers, i,
                   screenshot, queried, err, deviations, nz>>

\* index.ts:274: stagehand.close(), reached only when main returned
Close ==
    /\ pc = "returned"
    /\ pc' = "closed"
    /\ current' = [url |-> BLANK, ready |-> FALSE, paper |-> 0]
    /\ UNCHANGED <<dom, detail, paperElements, papers, detailedPapers, i, result, log,
                   screenshot, queried, err, deviations, nz>>

Next ==
    \/ Search
    \/ FindSome
    \/ FindNone
    \/ FindRejected
    \/ InspectStep
    \/ EnumerationDone
    \/ Goto
    \/ WaitForLoad
    \/ ExtractDetails
    \/ Finish
    \/ Close

Spec == Init /\ [][Next]_vars

\* once main has returned, run() goes on to its next statement, the close of
\* the session (index.ts:269-274): that step, when it can be taken, is taken
FairSpec == Spec /\ WF_vars(Close)

Terminated == pc \in {"closed", "rejected"}

-----------------------------------------------------------------------------
(* The abstract truncation rule on its own: inputs drawn in NormInit, the  *)
(* rule applied once and then to its own output                            *)

RECURSIVE StringsUpTo(_)
StringsUpTo(n) ==
    IF n = 0 THEN {<<>>}
    ELSE LET shorter == StringsUpTo(n - 1)
         IN  shorter \cup {Append(s, c) : s \in {t \in shorter : Len(t) = n - 1},
                                          c \in {"a", "."}}

NormInputs ==
    [stage : {"input"}, s : StringsUpTo(MaxStrLen) \cup {LONG_ABSTRACT},
     n : (0..MaxBound) \cup {MAX_ABSTRACT_LENGTH}, once : {<<>>}, twice : {<<>>}]

NormInit ==
    /\ nz \in NormInputs
    /\ pc = "off"
    /\ dom = NO_PAGE
    /\ current = [url |-> BLANK, ready |-> FALSE, paper |-> 0]
    /\ detail = NO_DETAIL
    /\ paperElements = <<>>
    /\ papers = <<>>
    /\ detailedPapers = <<>>
    /\ i = 0
    /\ result = NOT_RETURNED
    /\ log = <<>>
    /\ screenshot = "none"
    /\ queried = <<>>
    /\ err = "none"
    /\ deviations = 0

NormalizeOnce ==
    /\ nz.stage = "input"
    /\ nz' = [nz EXCEPT !.stage = "once", !.once = TruncateAbstract(nz.s, nz.n)]
    /\ UNCHANGED <<pc, dom, current, detail, paperElements, papers, detailedPapers, i,
                   result, log, screenshot, queried, err, deviations>>

NormalizeAgain ==
    /\ nz.stage = "once"
    /\ nz' = [nz EXCEPT !.stage = "twice", !.twice = TruncateAbstract(nz.once, nz.n)]
    /\ UNCHANGED <<pc, dom, current, detail, paperElements, papers, detailedPapers, i,
                   result, log, screenshot, queried, err, deviations>>

NormNext == NormalizeOnce \/ NormalizeAgain

NormSpec == NormInit /\ [][NormNext]_vars

-----------------------------------------------------------------------------
(* The identifier rule over the links the first loop can produce: the run  *)
(* taken up at the head of the try block of its only reference, read from  *)
(* a result element whose anchor carries an arbitrary short href           *)

RECURSIVE StringsOver(_, _)
StringsOver(chars, n) ==
    IF n = 0 THEN {<<>>}
    ELSE LET shorter == StringsOver(chars, n - 1)
         IN  shorter \cup {Append(s, c) : s \in {t \in shorter : Len(t) = n - 1},
                                          c \in chars}

Hrefs == StringsOver({"/", "v", "1"}, MaxUrlLen)

\* a result element with a title and an anchor of the given href
LinkedElement(href) ==
    <<Node("p", "title", <<"T","i","t","l","e",":"," ","A">>, FALSE, <<>>),
      Node("a", "abstract-link", <<>>, TRUE, href)>>

\* the history of the lookups and reads up to the head of the try block
ID_QUERIED ==
    <<[scope |-> 0, sel |-> PRIMARY, url |-> SEARCH_URL, ready |-> TRUE,
       opened |-> 0, paper |-> 0],
      [scope |-> 1, sel |-> "title", url |-> SEARCH_URL, ready |-> TRUE,
       opened |-> 0, paper |-> 0],
      [scope |-> 1, sel |-> "link", url |-> SEARCH_URL, ready |-> TRUE,
       opened |-> 0, paper |-> 0]>>

IdInit ==
    \E href \in Hrefs, d \in {PLAIN_DETAIL} \cup OtherDetails :
        LET items == <<LinkedElement(href)>>
            r == ReadReference(items, 1)
        IN  /\ pc = "extract"
            /\ dom = [markup |-> "arxiv", items |-> items]
            /\ paperElements = <<1>>
            /\ papers = <<[title |-> r.title, abstractLink |-> r.abstractLink,
                           elem |-> 1]>>
            /\ current = [url |-> r.abstractLink, ready |-> TRUE, paper |-> 1]
            /\ detail = d
            /\ detailedPapers = <<>>
            /\ i = 0
            /\ result = NOT_RETURNED
            /\ log = SEARCH_LOG \o <<Event("found", 1), Event("processing", 1)>>
            /\ screenshot = "none"
            /\ queried = ID_QUERIED
            /\ err = "none"
            /\ deviations = CountOther(items, PLAIN_ELEMENT)
                            + (IF d = PLAIN_DETAIL THEN 0 ELSE 1)
            /\ nz = NZ_IDLE

IdNext == ExtractDetails \/ Finish \/ Close

IdSpec == IdInit /\ [][IdNext]_vars

-----------------------------------------------------------------------------
(* Properties *)

Msgs == {log[k].msg : k \in 1..Len(log)}
SummaryEmitted == "finished" \in Msgs
\* both lookups of the result elements returned nothing (index.ts:77-78)
NoneFound == "no-elements" \in Msgs
\* the first loop has run to its end
EnumerationFinished ==
    \/ pc \in {"papers", "wait", "extract"}
    \/ pc \in {"returned", "closed"} /\ result.kind = "array"
    \/ pc = "rejected" /\ err \in {"goto-paper", "waitForLoadState-paper"}
NavigationFailed == err \in {"goto-paper", "waitForLoadState-paper"}
\* the try block of paper i has just ended: detail is the page it read
JustExtracted == pc = "papers" /\ i >= 1

\* C1: if the navigation to reference k's detail page (page.goto or the
\* content-ready wait) fails, the run still ends with one record per
\* reference, record k being the placeholder record.
C1_NavigationFailureKeepsBatch ==
    (Terminated /\ NavigationFailed) =>
        /\ Len(detailedPapers) = Len(papers)
        /\ detailedPapers[i + 1] = FallbackRecord(papers[i + 1])

C3_MissingDoiOnlyDefaultsDoi ==
    (/\ JustExtracted
     /\ Located(detail.nodes, DOI_SELECTOR) = {}
     /\ AbstractRead(detail).ok /\ AuthorsRead(detail).ok /\ DateRead(detail).ok) =>
        LET r == detailedPapers[i]
        IN  /\ r.doi = NOT_AVAILABLE
            /\ r.abstract = TruncateAbstract(AbstractRead(detail).v, MAX_ABSTRACT_LENGTH)
            /\ r.authors = AuthorsRead(detail).v
            /\ r.submissionDate = DateRead(detail).v
            /\ r.arxivId = ArxivId(papers[i].abstractLink)

\* a result element in which the title selector and the link selector both
\* match a node
Readable(e) ==
    /\ Located(dom.items[e], TITLE_SELECTOR) # {}
    /\ Located(dom.items[e], LINK_SELECTOR) # {}

\* C4 (as stated): the number of references produced by enumeration equals
\* min(number of result elements found, maxResults).
C4_ReferenceCountIsMin ==
    EnumerationFinished => Len(papers) = Min(Len(paperElements), MAX_PAPERS)

\* C4 (amended): the number of references equals the number of result
\* elements, among the first min(found, maxResults), whose title read and link
\* read both succeed (a read fails when its selector matches no node of the
\* element); it is at most min(found, maxResults).
C4_ReferenceCountIsReadableCount ==
    EnumerationFinished =>
        /\ Len(papers) =
             Cardinality({k \in 1..Min(Len(paperElements), MAX_PAPERS) :
                            Readable(paperElements[k])})
        /\ Len(papers) <= Min(Len(paperElements), MAX_PAPERS)

C4_Witness ==
    /\ EnumerationFinished
    /\ Len(paperElements) > MAX_PAPERS
    /\ Len(papers) < MAX_PAPERS
    /\ Len(papers) > 0

\* the node a ranked candidate list selects: the first match of the first
\* candidate, in list order, that matches anything
RankedNode(nodes, sels) ==
    LET c == CHOOSE c \in 1..Len(sels) :
                 /\ Located(nodes, <<sels[c]>>) # {}
                 /\ \A b \in 1..(c - 1) : Located(nodes, <<sels[b]>>) = {}
    IN  nodes[FirstOf(Located(nodes, <<sels[c]>>))]

\* C5: for every candidate list used during enumeration (result item, title,
\* detail link) the value taken is that of the first candidate in list order
\* that matches, and no candidate after it is evaluated.
C5_FirstCandidateInListOrderWins ==
    /\ \A k \in 1..Len(papers) :
         LET nodes == dom.items[papers[k].elem]
             t == RankedNode(nodes, TITLE_SELECTOR)
             a == RankedNode(nodes, LINK_SELECTOR)
         IN  /\ papers[k].title = Trim(StripTitleLabel(OrElse(t.text, TITLE_NOT_FOUND)))
             /\ papers[k].abstractLink = AbsoluteLink(IF a.hasHref THEN a.href ELSE <<>>)
    /\ \A k \in 1..Len(queried) :
         queried[k].sel = ALTERNATIVE => Len(AllResults(dom, PRIMARY)) = 0

\* C6: the truncation rule gives s when Len(s) <= n, and otherwise the first
\* n characters of s followed by "..." (length n + 3).
C6_TruncationRule ==
    nz.stage \in {"once", "twice"} =>
        IF Len(nz.s) <= nz.n
        THEN nz.once = nz.s
        ELSE /\ Len(nz.once) = nz.n + 3
             /\ \A k \in 1..nz.n : nz.once[k] = nz.s[k]
             /\ \A k \in 1..3 : nz.once[nz.n + k] = "."

C6_Witness ==
    /\ nz.stage = "once"
    /\ Len(nz.s) = LongLen /\ nz.n = MAX_ABSTRACT_LENGTH
    /\ Len(nz.once) = MAX_ABSTRACT_LENGTH + 3

\* C7: the truncation rule applied to its own output, with the same bound,
\* gives that output again, also when the first application truncated.
C7_TruncationIdempotent == nz.stage = "twice" => nz.twice = nz.once

C7_Witness ==
    /\ nz.stage = "twice"
    /\ Len(nz.s) > nz.n /\ nz.n > 0
    /\ nz.once # nz.s

\* C8: references are enumerated in the order of their result elements,
\* detail pages are visited in the order of the references, and record k is
\* the record of reference k, so the records keep the order of the elements.
C8_OrderPreserved ==
    /\ \A a, b \in 1..Len(papers) : a < b => papers[a].elem < papers[b].elem
    /\ Len(detailedPapers) <= Len(papers)
    /\ \A k \in 1..Len(detailedPapers) : detailedPapers[k].elem = papers[k].elem
    /\ \A a, b \in 1..Len(detailedPapers) :
         a < b => detailedPapers[a].elem < detailedPapers[b].elem
    /\ \A k \in 1..(Len(queried) - 1) : queried[k].paper <= queried[k + 1].paper
    /\ \A a, b \in 1..Len(log) :
         (a < b /\ log[a].msg = "processing" /\ log[b].msg = "processing")
             => log[a].n < log[b].n

C8_Witness ==
    /\ Len(detailedPapers) >= 3
    /\ detailedPapers[3].elem > 3
    /\ detailedPapers[1].title # detailedPapers[2].title

\* what a reference read inside one result element can hold
OwnTitles(nodes) ==
    {Trim(StripTitleLabel(OrElse(nodes[k].text, TITLE_NOT_FOUND))) :
       k \in Located(nodes, TITLE_SELECTOR)}
OwnLinks(nodes) ==
    {AbsoluteLink(IF nodes[k].hasHref THEN nodes[k].href ELSE <<>>) :
       k \in Located(nodes, LINK_SELECTOR)}

\* C9: the title and detail link of a reference come from nodes inside its own
\* result element, and the record of a reference carries that title: a value
\* present only in another element never appears in it.
C9_ScopeIsolation ==
    /\ \A k \in 1..Len(papers) :
         /\ papers[k].title \in OwnTitles(dom.items[papers[k].elem])
         /\ papers[k].abstractLink \in OwnLinks(dom.items[papers[k].elem])
    /\ \A k \in 1..Len(detailedPapers) :
         /\ detailedPapers[k].elem = papers[k].elem
         /\ detailedPapers[k].title = papers[k].title
    /\ \A k \in 1..Len(queried) :
         queried[k].sel \in {"title", "link"} => queried[k].scope >= 1

C9_Witness ==
    /\ pc = "closed"
    /\ \E a, b \in 1..Len(detailedPapers) :
         /\ detailedPapers[a].title \notin OwnTitles(dom.items[papers[b].elem])
         /\ papers[a].abstractLink \notin OwnLinks(dom.items[papers[b].elem])

\* C10: every run completes by returning a result collection and emitting the
\* run summary; no error raised during enumeration or per-paper extraction
\* ends the run abnormally.  Stated of the runs that found result elements:
\* once such a run has ended, main has returned the collection, one record
\* per reference, and the summary is logged.
C10_RunAlwaysCompletes ==
    (Terminated /\ paperElements # <<>>) =>
        /\ pc = "closed"
        /\ result = Returned(detailedPapers)
        /\ Len(detailedPapers) = Len(papers)
        /\ SummaryEmitted

\* C11: on a loaded detail page whose authors selector matches no element, the
\* instruction-driven authors extraction is used: the record's authors are the
\* list it returns and the record is not the whole-record fallback.
C11_AuthorsFallbackUsed ==
    (/\ JustExtracted
     /\ Located(detail.nodes, AUTHORS_SELECTOR) = {}
     /\ AbstractRead(detail).ok) =>
        LET r == detailedPapers[i]
        IN  /\ r.authors = detail.authorsLLM
            /\ r.abstract # EXTRACTION_FAILED
            /\ r.arxivId = ArxivId(papers[i].abstractLink)

\* C12: a lookup of the result elements that raises is treated as a lookup
\* with zero matches: the run is never ended by it, and once the lookups are
\* over the run has gone on to the next candidate or to the later stages.
C12_LookupErrorIsZeroMatches ==
    /\ err # "all"
    /\ (pc = "rejected" /\ err \notin {"goto", "act", "click", "waitForLoadState"}) =>
          \E k \in 1..Len(log) : log[k].msg \in {"found", "no-elements"}

\* how many result elements the first loop has gone through
InspectedCount ==
    IF pc = "inspect" THEN i
    ELSE IF EnumerationFinished THEN Min(Len(paperElements), MAX_PAPERS)
    ELSE 0

\* the references read from result element e
ReferencesOf(e) == {k \in 1..Len(papers) : papers[k].elem = e}

\* the anchors of a result element that carry a non-empty href
LinkedAnchors(nodes) ==
    {k \in Located(nodes, LINK_SELECTOR) : nodes[k].hasHref /\ nodes[k].href # <<>>}

\* C13: an inspected result element in which no title candidate matches but
\* a detail link is found yields a reference, with title "Title not found".
C13_MissingTitleGetsPlaceholder ==
    \A j \in 1..InspectedCount :
        LET e == paperElements[j]
        IN  (/\ Located(dom.items[e], TITLE_SELECTOR) = {}
             /\ LinkedAnchors(dom.items[e]) # {}) =>
                \E k \in ReferencesOf(e) : papers[k].title = TITLE_NOT_FOUND

\* C14: an inspected result element from which no href can be obtained (no
\* matching anchor, or a matching anchor whose href is null or empty) yields
\* no reference, and the detail link of every reference derives from a
\* non-empty href of an anchor of its element.
C14_MissingLinkDropsReference ==
    /\ \A j \in 1..InspectedCount :
         LET e == paperElements[j]
         IN  LinkedAnchors(dom.items[e]) = {} => ReferencesOf(e) = {}
    /\ \A k \in 1..Len(papers) :
         LET nodes == dom.items[papers[k].elem]
         IN  \E a \in LinkedAnchors(nodes) :
                papers[k].abstractLink = AbsoluteLink(nodes[a].href)

\* C15: on a loaded detail page, the failure of one field's extraction stays
\* with that field.  Stated of the submission date: when the dateline selector
\* matches nothing and the other reads succeed, the record has submissionDate
\* "Date not found" and its other fields hold their extracted values.
C15_FieldFailureIsIsolated ==
    (/\ JustExtracted
     /\ Located(detail.nodes, DATE_SELECTOR) = {}
     /\ AbstractRead(detail).ok /\ AuthorsRead(detail).ok /\ DoiRead(detail).ok) =>
        LET r == detailedPapers[i]
        IN  /\ r.submissionDate = DATE_NOT_FOUND
            /\ r.authors = AuthorsRead(detail).v
            /\ r.doi = DoiRead(detail).v
            /\ r.abstract = TruncateAbstract(AbstractRead(detail).v, MAX_ABSTRACT_LENGTH)
            /\ r.arxivId = ArxivId(papers[i].abstractLink)

\* the try block of paper k ended in its catch block
Failed(k) == \E j \in 1..Len(log) : log[j] = Event("failed", k)

\* C16: whenever the extraction block of a reference fails as a whole, the
\* record appended for it has abstract, submissionDate and identifier
\* "Extraction Failed", no authors, doi "Not available", citationCount "N/A"
\* and the title of the reference.
C16_FallbackRecordValues ==
    /\ \A k \in 1..Len(detailedPapers) :
         Failed(k) =>
            LET r == detailedPapers[k]
                failed == <<"E","x","t","r","a","c","t","i","o","n"," ",
                            "F","a","i","l","e","d">>
            IN  /\ r.abstract = failed
                /\ r.submissionDate = failed
                /\ r.arxivId = failed
                /\ r.authors = <<>>
                /\ r.doi = <<"N","o","t"," ","a","v","a","i","l","a","b","l","e">>
                /\ r.citationCount = <<"N","/","A">>
                /\ r.title = papers[k].title
    /\ (JustExtracted /\ Len(DetailReads(detail)) < 4) => Failed(i)
    /\ (JustExtracted /\ ~DoiRead(detail).ok) => Failed(i)

C16_Witness ==
    /\ pc = "closed"
    /\ \E k \in 1..Len(detailedPapers) :
         /\ Failed(k)
         /\ detailedPapers[k].title = <<"A">>
         /\ \E j \in 1..Len(detailedPapers) : ~Failed(j)

DETAIL_FIELDS == {"extract", "authors", "dateline", "doi"}

\* C18: every read of a field of a detail page (abstract, authors, submission
\* date, doi) runs for a reference after the browser was sent to that
\* reference's detail link and the content-ready wait ended, both for that
\* same reference; no field is read outside the processing of a reference.
C18_ReadsAfterLoad ==
    \A k \in 1..Len(queried) :
        LET q == queried[k]
        IN  /\ q.sel \in DETAIL_FIELDS <=> q.paper >= 1
            /\ q.paper >= 1 =>
                 /\ q.opened = q.paper
                 /\ q.ready
                 /\ q.url = papers[q.paper].abstractLink

C18_Witness ==
    /\ pc = "closed"
    /\ Len(papers) >= 2
    /\ papers[1].abstractLink # papers[2].abstractLink
    /\ \E k \in 1..Len(queried) : queried[k].paper = 2 /\ queried[k].sel = "doi"

\* the result elements within the cap
Capped == {paperElements[j] : j \in 1..Min(Len(paperElements), MAX_PAPERS)}

\* C19: only the first maxResults result elements are ever inspected and at
\* most maxResults detail pages are opened; elements past the cap are never
\* read, also when references among the first maxResults were dropped, and
\* neither the references nor the records exceed maxResults.
C19_CapRespected ==
    /\ \A k \in 1..Len(queried) :
         /\ queried[k].scope >= 1 => queried[k].scope \in Capped
         /\ queried[k].paper <= MAX_PAPERS
    /\ \A k \in 1..Len(papers) : papers[k].elem \in Capped
    /\ Len(papers) <= MAX_PAPERS
    /\ Len(detailedPapers) <= MAX_PAPERS
    /\ current.paper <= MAX_PAPERS
    /\ \A k \in 1..Len(log) : log[k].msg = "processing" => log[k].n <= MAX_PAPERS

C19_Witness ==
    /\ pc = "closed"
    /\ Len(paperElements) > MAX_PAPERS
    /\ Len(detailedPapers) = MAX_PAPERS - 1
    /\ Readable(paperElements[MAX_PAPERS + 1])
    /\ \E k \in 1..Len(queried) : queried[k].scope = paperElements[MAX_PAPERS]

ABSTRACT_LABEL == <<"a","b","s","t","r","a","c","t",":">>

\* a text without its leading "Abstract:" label (any case) and the blanks
\* after it
WithoutAbstractLabel(text) ==
    IF Len(text) >= Len(ABSTRACT_LABEL)
       /\ LowerCase(SubSeq(text, 1, Len(ABSTRACT_LABEL))) = ABSTRACT_LABEL
    THEN TrimStart(SubSeq(text, Len(ABSTRACT_LABEL) + 1, Len(text)))
    ELSE text

\* C20: in every record that is not the fallback, the abstract is the
\* extraction result with a leading "Abstract:" label removed, the removal
\* coming before the length check and the truncation.
C20_AbstractLabelStripped ==
    (JustExtracted /\ ~Failed(i)) =>
        detailedPapers[i].abstract =
            TruncateAbstract(WithoutAbstractLabel(AbstractRead(detail).v),
                             MAX_ABSTRACT_LENGTH)

\* the text after the last '/' of a link (the whole link when it has none)
LastSlash(url) ==
    LET ks == {k \in 1..Len(url) : url[k] = "/"}
    IN  IF ks = {} THEN 0 ELSE CHOOSE k \in ks : \A j \in ks : j <= k
Segment(url) == SubSeq(url, LastSlash(url) + 1, Len(url))

\* C21: in every record that is not the fallback, the identifier depends on
\* the reference's detail link alone: with seg the text after the link's last
\* '/', it is seg when seg contains 'v', and "arXiv:" followed by seg
\* otherwise, also when seg is empty.
C21_IdentifierFromLink ==
    \A k \in 1..Len(detailedPapers) :
        ~Failed(k) =>
            LET seg == Segment(papers[k].abstractLink)
            IN  detailedPapers[k].arxivId =
                    IF \E j \in 1..Len(seg) : seg[j] = "v"
                    THEN seg
                    ELSE <<"a","r","X","i","v",":">> \o seg

\* a record whose link ends in '/', and so has an empty last segment
C21_Witness ==
    /\ pc = "closed"
    /\ Len(detailedPapers) = 1
    /\ ~Failed(1)
    /\ Segment(papers[1].abstractLink) = <<>>
    /\ LastSlash(papers[1].abstractLink) > Len(ARXIV_ORIGIN)
    /\ detailedPapers[1].arxivId = ARXIV_PREFIX

\* C22: enumeration and detail extraction are two separate phases: no detail
\* page is opened before every result element within the cap has been
\* inspected, so every read scoped to a result element runs on the
\* search-results page, and none follows a read of a detail page.
C22_TwoPhases ==
    /\ \A k \in 1..Len(queried) :
         queried[k].scope >= 1 =>
            /\ queried[k].url = SEARCH_URL
            /\ queried[k].opened = 0
            /\ queried[k].paper = 0
            /\ \A j \in 1..(k - 1) : queried[j].paper = 0
    /\ pc \in {"find", "inspect"} => (current.url = SEARCH_URL /\ current.paper = 0)
    /\ (current.paper >= 1 \/ "processing" \in Msgs) =>
          /\ EnumerationFinished
          /\ \A e \in Capped : \E k \in 1..Len(queried) : queried[k].scope = e

C22_Witness ==
    /\ pc = "closed"
    /\ Len(detailedPapers) >= 2
    /\ Len(paperElements) = MAX_PAPERS
    /\ \E k \in 1..Len(queried) :
         queried[k].scope = MAX_PAPERS /\ queried[k].sel = "link"
    /\ \E k \in 1..Len(queried) : queried[k].paper = 2

\* C23: the session is closed only after main has returned, and at most
\* once; whenever main returns normally, also by the early return when no
\* result element is found, stagehand.close() is the next step of run() and
\* is taken; after the close no page operation runs and no record is appended.
C23_ClosedOnceAfterMain ==
    /\ [][/\ pc' = "closed" => (pc = "returned" /\ result # NOT_RETURNED)
          /\ pc = "returned" => pc' = "closed"
          /\ pc # "closed"]_vars
    /\ [](pc = "closed" => (err = "none" /\ result.kind \in {"array", "undefined"}))
    /\ (pc = "returned") ~> (pc = "closed")

C23_Witness ==
    /\ pc = "closed"
    /\ result = UNDEFINED
    /\ dom.markup = "unknown"
    /\ current = [url |-> BLANK, ready |-> FALSE, paper |-> 0]

=============================================================================
